---- MODULE Spec2Model ----
(***************************************************************************)
(* A model of the human-errors error chain: the Error node (kind, wrapped  *)
(* error, static advice), the message wrapper, and the read operations     *)
(* description(), advice(), caused_by(), message(), is() and source().     *)
(*                                                                         *)
(* An error value is a finite sequence of layers, outermost first.  Every  *)
(* layer but the last owns exactly one inner error (the rest of the        *)
(* sequence); the last layer is a leaf with no source.  The empty sequence *)
(* stands for Option::None wherever the code returns an optional error.    *)
(***************************************************************************)
EXTENDS Naturals, Sequences, FiniteSets, TLC

VARIABLES err, res

vars == <<err, res>>

\* ---------------------------------------------------------------------------
\* Bounds and input sets
\* ---------------------------------------------------------------------------

\* The largest number of layers (domain nodes and message wrappers) put around
\* a leaf error.
MaxLayers == 3

\* The largest number of domain nodes in a chain built with wrap_user /
\* wrap_system alone.
MaxWrapped == 3

\* enum Kind { User, System }
Kind == {"User", "System"}

\* Display texts of the plain text values that are converted into boxed errors.
Texts == {"You got rate limited", "Low-level failure."}

\* Messages given to wrap().
Messages == {"Something bad happened.", "High-level issue."}

A1 == "Avoid bad things happening in future"
A2 == "Check low-level systems"
A3 == "Check high-level configuration"
A4 == "Wait a few minutes and try again."

\* The static advice slices the call sites declare.
AdviceSlices == {<<>>, <<A1>>, <<A2>>, <<A3, A4>>}

\* ---------------------------------------------------------------------------
\* Error values
\* ---------------------------------------------------------------------------

\* A plain text converted into Box<dyn Error + Send + Sync>: displays as the
\* text and has no source.
Basic(text) == <<[t |-> "leaf", text |-> text]>>

\* wrapper::wrap: ErrorWithMessage { message, inner: Some(inner) }
wrap(inner, message) == <<[t |-> "wrap", message |-> message]>> \o inner

\* Error::new: Self { error, kind, advice }
ErrorNew(error, kind, advice) ==
    <<[t |-> "node", kind |-> kind, advice |-> advice]>> \o error

\* err.downcast_ref::<Error>() is Some
IsDomain(e) == e # <<>> /\ e[1].t = "node"

\* self.error / self.inner of the outermost layer
Inner(e) == Tail(e)

\* ---------------------------------------------------------------------------
\* std::error::Error::source and Display, by dynamic type
\* ---------------------------------------------------------------------------

\* <dyn Error>::source(): a domain node answers with the source of its wrapped
\* error (impl error::Error for Error), a message wrapper with its inner error
\* (impl Error for ErrorWithMessage), a plain text with None.
source_unlinked(e) == <<>>

RECURSIVE source(_)
source(e) ==
    IF e[1].t = "node" THEN source(Inner(e))
    ELSE IF e[1].t = "wrap" THEN Inner(e)
    ELSE <<>>

format_description_swapped(kind, description) ==
    IF kind = "User" THEN description \o " (System failure)"
    ELSE description \o " (User error)"

\* Kind::format_description
format_description(kind, description) ==
    IF kind = "User" THEN description \o " (User error)"
    ELSE description \o " (System failure)"

\* <[String]>::join
RECURSIVE join(_, _)
join(items, sep) ==
    IF items = <<>> THEN ""
    ELSE IF Len(items) = 1 THEN items[1]
    ELSE items[1] \o sep \o join(Tail(items), sep)

\* Vec::reverse
reverse(s) == [i \in 1..Len(s) |-> s[Len(s) + 1 - i]]

retain_last(s) ==
    LET keep(i) == \A j \in (i + 1)..Len(s) : s[j] # s[i]
        F[i \in 0..Len(s)] ==
            IF i = 0 THEN <<>>
            ELSE IF keep(i) THEN Append(F[i - 1], s[i]) ELSE F[i - 1]
    IN  F[Len(s)]

\* advice.retain(|item| seen.insert(*item)): an item stays when the set did not
\* hold it yet, that is, when no earlier position carries the same string.
retain_unseen(s) ==
    LET keep(i) == \A j \in 1..(i - 1) : s[j] # s[i]
        F[i \in 0..Len(s)] ==
            IF i = 0 THEN <<>>
            ELSE IF keep(i) THEN Append(F[i - 1], s[i]) ELSE F[i - 1]
    IN  F[Len(s)]

\* Display of an error that is not a domain node: the message of a wrapper
\* (impl Display for ErrorWithMessage), the text of a plain text value.
DisplayOpaque(e) == IF e[1].t = "wrap" THEN e[1].message ELSE e[1].text

\* ---------------------------------------------------------------------------
\* Error: the read operations (self is a sequence whose first layer is a node)
\* ---------------------------------------------------------------------------

is_other(self, kind) == self[1].kind # kind

\* Error::is
is(self, kind) == self[1].kind = kind

description_deepest(self) == self[Len(self)].text

\* Error::description
RECURSIVE description(_)
description(self) ==
    IF IsDomain(Inner(self)) THEN description(Inner(self))
    ELSE DisplayOpaque(Inner(self))

RECURSIVE advice_walk_from_source(_)
advice_walk_from_source(cause) ==
    LET next == source(cause) IN
    IF next = <<>> THEN <<>>
    ELSE (IF IsDomain(next) THEN next[1].advice ELSE <<>>)
            \o advice_walk_from_source(next)

\* The loop of Error::advice: `cause` is the cursor; a domain node under the
\* cursor contributes its own advice, then the cursor moves to its source().
RECURSIVE advice_walk(_)
advice_walk(cause) ==
    IF cause = <<>> THEN <<>>
    ELSE (IF IsDomain(cause) THEN cause[1].advice ELSE <<>>)
            \o advice_walk(source(cause))

advice_unreversed(self) ==
    retain_unseen(self[1].advice \o advice_walk(Inner(self)))

\* Error::advice
advice(self) ==
    retain_unseen(reverse(self[1].advice \o advice_walk(Inner(self))))

RECURSIVE caused_by_walk_deepest_first(_)
caused_by_walk_deepest_first(current_error) ==
    LET next == source(current_error) IN
    IF next = <<>> THEN <<>>
    ELSE caused_by_walk_deepest_first(next)
            \o <<IF IsDomain(next) THEN description(next) ELSE DisplayOpaque(next)>>

\* The loop of Error::caused_by: `current_error` is the cursor, which moves to
\* its source() after pushing that source's description or Display text.
RECURSIVE caused_by_walk(_)
caused_by_walk(current_error) ==
    LET next == source(current_error) IN
    IF next = <<>> THEN <<>>
    ELSE <<IF IsDomain(next) THEN description(next) ELSE DisplayOpaque(next)>>
            \o caused_by_walk(next)

caused_by_listing_wrapped(self) ==
    <<IF IsDomain(Inner(self)) THEN description(Inner(self))
      ELSE DisplayOpaque(Inner(self))>> \o caused_by_walk(Inner(self))

\* Error::caused_by
caused_by(self) == caused_by_walk(Inner(self))

message_advice_first(self) ==
    LET hero_message == format_description(self[1].kind, description(self))
        cause == caused_by(self)
        adv == advice(self)
    IN  IF cause # <<>> /\ adv # <<>> THEN
            hero_message \o "\n\nTo try and fix this, you can:\n - " \o join(adv, "\n - ")
                \o "\n\nThis was caused by:\n - " \o join(cause, "\n - ")
        ELSE IF cause # <<>> THEN
            hero_message \o "\n\nThis was caused by:\n - " \o join(cause, "\n - ")
        ELSE IF adv # <<>> THEN
            hero_message \o "\n\nTo try and fix this, you can:\n - " \o join(adv, "\n - ")
        ELSE hero_message

\* Error::message
message(self) ==
    LET hero_message == format_description(self[1].kind, description(self))
        cause == caused_by(self)
        adv == advice(self)
    IN  IF cause # <<>> /\ adv # <<>> THEN
            hero_message \o "\n\nThis was caused by:\n - " \o join(cause, "\n - ")
                \o "\n\nTo try and fix this, you can:\n - " \o join(adv, "\n - ")
        ELSE IF cause # <<>> THEN
            hero_message \o "\n\nThis was caused by:\n - " \o join(cause, "\n - ")
        ELSE IF adv # <<>> THEN
            hero_message \o "\n\nTo try and fix this, you can:\n - " \o join(adv, "\n - ")
        ELSE hero_message

\* Display of any error: a domain node prints its message() (impl Display for
\* Error).
Display(e) == IF IsDomain(e) THEN message(e) ELSE DisplayOpaque(e)

\* ---------------------------------------------------------------------------
\* Convenience constructors
\* ---------------------------------------------------------------------------

user(error, adv) == ErrorNew(error, "User", adv)

system(error, adv) == ErrorNew(error, "System", adv)

wrap_user(inner, msg, adv) == ErrorNew(wrap(inner, msg), "User", adv)

wrap_system(inner, msg, adv) == ErrorNew(wrap(inner, msg), "System", adv)

\* ---------------------------------------------------------------------------
\* The state machine: one error value is built up layer by layer and read.
\* ---------------------------------------------------------------------------

NoResult == [op |-> "none"]

\* Number of layers around the leaf.
Layers(e) == Len(e) - 1

Init ==
    /\ err \in {Basic(text) : text \in Texts}
    /\ res = NoResult

CanGrow(n) == Layers(err) + n <= MaxLayers

NewError ==
    \E kind \in Kind, adv \in AdviceSlices :
        /\ CanGrow(1)
        /\ err' = ErrorNew(err, kind, adv)
        /\ res' = NoResult

Wrap ==
    \E msg \in Messages :
        /\ CanGrow(1)
        /\ err' = wrap(err, msg)
        /\ res' = NoResult

User ==
    \E adv \in AdviceSlices :
        /\ CanGrow(1)
        /\ err' = user(err, adv)
        /\ res' = NoResult

System ==
    \E adv \in AdviceSlices :
        /\ CanGrow(1)
        /\ err' = system(err, adv)
        /\ res' = NoResult

WrapUser ==
    \E msg \in Messages, adv \in AdviceSlices :
        /\ CanGrow(2)
        /\ err' = wrap_user(err, msg, adv)
        /\ res' = NoResult

WrapSystem ==
    \E msg \in Messages, adv \in AdviceSlices :
        /\ CanGrow(2)
        /\ err' = wrap_system(err, msg, adv)
        /\ res' = NoResult

Is ==
    \E kind \in Kind :
        /\ IsDomain(err)
        /\ res' = [op |-> "is", arg |-> kind, val |-> is(err, kind)]
        /\ UNCHANGED err

Description ==
    /\ IsDomain(err)
    /\ res' = [op |-> "description", val |-> description(err)]
    /\ UNCHANGED err

AdviceDraining ==
    /\ IsDomain(err)
    /\ res' = [op |-> "advice", val |-> advice(err)]
    /\ err' = [err EXCEPT ![1].advice = <<>>]

Advice ==
    /\ IsDomain(err)
    /\ res' = [op |-> "advice", val |-> advice(err)]
    /\ UNCHANGED err

CausedBy ==
    /\ IsDomain(err)
    /\ res' = [op |-> "caused_by", val |-> caused_by(err)]
    /\ UNCHANGED err

Message ==
    /\ IsDomain(err)
    /\ res' = [op |-> "message", val |-> message(err)]
    /\ UNCHANGED err

Source ==
    /\ res' = [op |-> "source", val |-> source(err)]
    /\ UNCHANGED err

Next ==
    \/ NewError
    \/ Wrap
    \/ User
    \/ System
    \/ WrapUser
    \/ WrapSystem
    \/ Is
    \/ Description
    \/ Advice
    \/ CausedBy
    \/ Message
    \/ Source

Spec == Init /\ [][Next]_vars

\* Chains built with wrap_user / wrap_system alone, up to MaxWrapped domain
\* nodes deep, and read with advice() and caused_by().
NodeCount(e) == Cardinality({i \in 1..Len(e) : e[i].t = "node"})

ChainWrapUser ==
    \E msg \in Messages, adv \in AdviceSlices :
        /\ NodeCount(err) < MaxWrapped
        /\ err' = wrap_user(err, msg, adv)
        /\ res' = NoResult

ChainWrapSystem ==
    \E msg \in Messages, adv \in AdviceSlices :
        /\ NodeCount(err) < MaxWrapped
        /\ err' = wrap_system(err, msg, adv)
        /\ res' = NoResult

NextWrapped ==
    \/ ChainWrapUser
    \/ ChainWrapSystem
    \/ Advice
    \/ CausedBy

SpecWrapped == Init /\ [][NextWrapped]_vars

TypeOK ==
    /\ Len(err) >= 1
    /\ err[Len(err)].t = "leaf"
    /\ \A i \in 1..(Len(err) - 1) : err[i].t \in {"node", "wrap"}

\* ---------------------------------------------------------------------------
\* Result / Option extension methods and the conversion from std::io::Error
\* ---------------------------------------------------------------------------

\* The largest number of layers around a leaf in the chains that the extension
\* methods build.
MaxExtLayers == 2

\* The success values carried by Ok and Some.
Values == {42}

\* Result<T, E>
Ok(value) == [ok |-> TRUE, value |-> value]

Err(error) == [ok |-> FALSE, error |-> error]

\* Option<T>
Some(value) == [some |-> TRUE, value |-> value]

None == [some |-> FALSE]

\* Result::map_err leaves Ok(_) as it is and applies its closure to the payload
\* of Err(_).

\* ResultExt::or_user_err
or_user_err(self, adv) ==
    IF self.ok THEN self ELSE Err(user(self.error, adv))

\* ResultExt::wrap_user_err
wrap_user_err(self, msg, adv) ==
    IF self.ok THEN self ELSE Err(wrap_user(self.error, msg, adv))

or_system_err_as_user(self, adv) ==
    IF self.ok THEN self ELSE Err(user(self.error, adv))

\* ResultExt::or_system_err
or_system_err(self, adv) ==
    IF self.ok THEN self ELSE Err(system(self.error, adv))

\* ResultExt::wrap_system_err
wrap_system_err(self, msg, adv) ==
    IF self.ok THEN self ELSE Err(wrap_system(self.error, msg, adv))

\* ResultExt::map_err_as_user (deprecated)
map_err_as_user(self, adv) ==
    IF self.ok THEN self ELSE Err(user(self.error, adv))

\* ResultExt::wrap_err_as_user (deprecated)
wrap_err_as_user(self, msg, adv) ==
    IF self.ok THEN self
    ELSE Err(user(wrap_user(self.error, msg, adv), adv))

\* ResultExt::map_err_as_system (deprecated)
map_err_as_system(self, adv) ==
    IF self.ok THEN self ELSE Err(system(self.error, adv))

wrap_err_as_system_under_user(self, msg, adv) ==
    IF self.ok THEN self
    ELSE Err(user(wrap_system(self.error, msg, adv), adv))

\* ResultExt::wrap_err_as_system (deprecated)
wrap_err_as_system(self, msg, adv) ==
    IF self.ok THEN self
    ELSE Err(system(wrap_system(self.error, msg, adv), adv))

\* OptionExt::ok_or_user_err: msg.into() is a plain text turned into a boxed
\* error.
ok_or_user_err(self, msg, adv) ==
    IF self.some THEN Ok(self.value) ELSE Err(user(Basic(msg), adv))

\* OptionExt::ok_or_system_err
ok_or_system_err(self, msg, adv) ==
    IF self.some THEN Ok(self.value) ELSE Err(system(Basic(msg), adv))

\* io::ErrorKind: the five kinds the conversion names and three of the others.
IoKinds ==
    {"NotFound", "PermissionDenied", "AlreadyExists", "AddrInUse",
     "DirectoryNotEmpty", "TimedOut", "InvalidInput", "Other"}

\* Display of an io::Error made from a bare kind.
IoText(kind) ==
    CASE kind = "NotFound" -> "entity not found"
      [] kind = "PermissionDenied" -> "permission denied"
      [] kind = "AlreadyExists" -> "entity already exists"
      [] kind = "AddrInUse" -> "address in use"
      [] kind = "DirectoryNotEmpty" -> "directory not empty"
      [] kind = "TimedOut" -> "timed out"
      [] kind = "InvalidInput" -> "invalid input parameter"
      [] OTHER -> "other error"

\* An io::Error made from a bare kind: it displays as the text of the kind and
\* has no source.
IoError(kind) == <<[t |-> "leaf", text |-> IoText(kind), io |-> kind]>>

from_io_short_table(e) ==
    LET kind == e[1].io IN
    CASE kind = "NotFound" ->
            wrap_user(e, "Could not find the requested file.",
                <<"Check that the file path you provided is correct and try again.">>)
      [] kind = "PermissionDenied" ->
            wrap_user(e, "Permission denied when trying to access the requested resource.",
                <<"Check the file permissions and ensure that the application has access to the resource.">>)
      [] kind = "AlreadyExists" ->
            wrap_user(e, "The file or directory you are trying to create already exists.",
                <<"Choose a different file name or delete the existing file and try again.">>)
      [] OTHER ->
            wrap_system(e, "An internal error occurred which we could not recover from.",
                <<"Please read the internal error below and decide if there is something you can do to fix the problem, or report it to us on GitHub.">>)

\* impl From<io::Error> for Error
from_io(e) ==
    LET kind == e[1].io IN
    CASE kind = "NotFound" ->
            wrap_user(e, "Could not find the requested file.",
                <<"Check that the file path you provided is correct and try again.">>)
      [] kind = "PermissionDenied" ->
            wrap_user(e, "Permission denied when trying to access the requested resource.",
                <<"Check the file permissions and ensure that the application has access to the resource.">>)
      [] kind = "AlreadyExists" ->
            wrap_user(e, "The file or directory you are trying to create already exists.",
                <<"Choose a different file name or delete the existing file and try again.">>)
      [] kind = "AddrInUse" ->
            wrap_user(e, "The network address you are trying to bind to is already in use.",
                <<"Make sure no other application is using the same address and try again.">>)
      [] kind = "DirectoryNotEmpty" ->
            wrap_user(e, "The directory you are trying to remove is not empty.",
                <<"Delete all files and subdirectories within the directory before attempting to remove it.">>)
      [] OTHER ->
            wrap_system(e, "An internal error occurred which we could not recover from.",
                <<"Please read the internal error below and decide if there is something you can do to fix the problem, or report it to us on GitHub.">>)

\* The Result values a fallible call hands to an extension method: a success,
\* or the failure with the current error as its payload.
ResultsOf(e) == {Ok(value) : value \in Values} \cup {Err(e)}

Options == {Some(value) : value \in Values} \cup {None}

CanGrowExt(n) == Layers(err) + n <= MaxExtLayers

\* The error the caller holds after the call: the payload of a failure, the
\* former error when the call succeeded.
Propagated(result) == IF result.ok THEN err ELSE result.error

OrUserErr ==
    \E self \in ResultsOf(err), adv \in AdviceSlices :
        /\ CanGrowExt(1)
        /\ res' = [op |-> "or_user_err", self |-> self, adv |-> adv,
                   val |-> or_user_err(self, adv)]
        /\ err' = Propagated(res'.val)

WrapUserErr ==
    \E self \in ResultsOf(err), msg \in Messages, adv \in AdviceSlices :
        /\ CanGrowExt(2)
        /\ res' = [op |-> "wrap_user_err", self |-> self, msg |-> msg,
                   adv |-> adv, val |-> wrap_user_err(self, msg, adv)]
        /\ err' = Propagated(res'.val)

OrSystemErr ==
    \E self \in ResultsOf(err), adv \in AdviceSlices :
        /\ CanGrowExt(1)
        /\ res' = [op |-> "or_system_err", self |-> self, adv |-> adv,
                   val |-> or_system_err(self, adv)]
        /\ err' = Propagated(res'.val)

WrapSystemErr ==
    \E self \in ResultsOf(err), msg \in Messages, adv \in AdviceSlices :
        /\ CanGrowExt(2)
        /\ res' = [op |-> "wrap_system_err", self |-> self, msg |-> msg,
                   adv |-> adv, val |-> wrap_system_err(self, msg, adv)]
        /\ err' = Propagated(res'.val)

OkOrUserErr ==
    \E self \in Options, msg \in Messages, adv \in AdviceSlices :
        /\ res' = [op |-> "ok_or_user_err", self |-> self, msg |-> msg,
                   adv |-> adv, val |-> ok_or_user_err(self, msg, adv)]
        /\ err' = Propagated(res'.val)

OkOrSystemErr ==
    \E self \in Options, msg \in Messages, adv \in AdviceSlices :
        /\ res' = [op |-> "ok_or_system_err", self |-> self, msg |-> msg,
                   adv |-> adv, val |-> ok_or_system_err(self, msg, adv)]
        /\ err' = Propagated(res'.val)

FromIo ==
    \E kind \in IoKinds :
        /\ res' = [op |-> "from", self |-> IoError(kind),
                   val |-> from_io(IoError(kind))]
        /\ err' = res'.val

\* The largest number of layers in the chains that the deprecated methods
\* build: wrap_err_as_user and wrap_err_as_system add three layers at once.
MaxDeprecatedLayers == 4

CanGrowDeprecated(n) == Layers(err) + n <= MaxDeprecatedLayers

MapErrAsUser ==
    \E self \in ResultsOf(err), adv \in AdviceSlices :
        /\ CanGrowExt(1)
        /\ res' = [op |-> "map_err_as_user", self |-> self, adv |-> adv,
                   val |-> map_err_as_user(self, adv)]
        /\ err' = Propagated(res'.val)

WrapErrAsUser ==
    \E self \in ResultsOf(err), msg \in Messages, adv \in AdviceSlices :
        /\ CanGrowDeprecated(3)
        /\ res' = [op |-> "wrap_err_as_user", self |-> self, msg |-> msg,
                   adv |-> adv, val |-> wrap_err_as_user(self, msg, adv)]
        /\ err' = Propagated(res'.val)

MapErrAsSystem ==
    \E self \in ResultsOf(err), adv \in AdviceSlices :
        /\ CanGrowExt(1)
        /\ res' = [op |-> "map_err_as_system", self |-> self, adv |-> adv,
                   val |-> map_err_as_system(self, adv)]
        /\ err' = Propagated(res'.val)

WrapErrAsSystem ==
    \E self \in ResultsOf(err), msg \in Messages, adv \in AdviceSlices :
        /\ CanGrowDeprecated(3)
        /\ res' = [op |-> "wrap_err_as_system", self |-> self, msg |-> msg,
                   adv |-> adv, val |-> wrap_err_as_system(self, msg, adv)]
        /\ err' = Propagated(res'.val)

NextExt ==
    \/ OrUserErr
    \/ WrapUserErr
    \/ OrSystemErr
    \/ WrapSystemErr
    \/ OkOrUserErr
    \/ OkOrSystemErr
    \/ FromIo
    \/ MapErrAsUser
    \/ WrapErrAsUser
    \/ MapErrAsSystem
    \/ WrapErrAsSystem

SpecExt == Init /\ [][NextExt]_vars

\* ---------------------------------------------------------------------------
\* The pretty renderer
\* ---------------------------------------------------------------------------

\* The strings of this model are ASCII.  Each glyph outside ASCII that the
\* renderer writes or that a text holds is written as one ASCII character
\* which no input uses otherwise; utf8_len gives the number of bytes of the
\* glyph it stands for.  The colour escapes of the colored crate occupy no
\* column and are left out.

\* U+2502, the vertical connector
VERTICAL == "|"

\* U+2500, the horizontal rule
HORIZONTAL == "="

\* U+251C, the connector of a cause that has a further cause
BRANCH == "+"

\* U+2570, the connector of the last cause
CORNER == "%"

\* U+2022, the bullet of an advice item
BULLET == "*"

\* A letter of two bytes in a text, such as U+00E9
ACCENTED == "#"

\* cli_boxes::BoxChars::ROUND (U+256D U+2500 U+256E, U+2502, U+2570 U+2500
\* U+256F)
ROUND ==
    [top_left |-> "{", top |-> HORIZONTAL, top_right |-> "}",
     left |-> VERTICAL, right |-> VERTICAL,
     bottom_left |-> CORNER, bottom |-> HORIZONTAL, bottom_right |-> "~"]

\* The number of bytes of the UTF-8 encoding of a character.
utf8_len(ch) ==
    IF ch \in {VERTICAL, HORIZONTAL, BRANCH, CORNER, BULLET,
               ROUND.top_left, ROUND.top_right, ROUND.bottom_right} THEN 3
    ELSE IF ch = ACCENTED THEN 2
    ELSE 1

\* str::len: the length of a string in bytes.
len(s) ==
    LET count(n) ==
            Cardinality({i \in 1..Len(s) : utf8_len(SubSeq(s, i, i)) = n})
    IN  count(1) + 2 * count(2) + 3 * count(3)

\* The number of terminal columns a string occupies: one per character.
display_width(s) == Len(s)

\* str::repeat
RECURSIVE repeat(_, _)
repeat(s, n) ==
    IF n = 0 THEN ""
    ELSE LET half == repeat(s, n \div 2) IN
         IF n % 2 = 0 THEN half \o half ELSE half \o half \o s

\* usize::saturating_sub
saturating_sub(a, b) == IF a > b THEN a - b ELSE 0

\* str::trim_end for texts whose only whitespace is the space
RECURSIVE trim_end(_)
trim_end(s) ==
    IF s # "" /\ SubSeq(s, Len(s), Len(s)) = " "
        THEN trim_end(SubSeq(s, 1, Len(s) - 1))
    ELSE s

\* textwrap's words of a line: a word is a run of characters other than the
\* space together with the spaces that follow it; spaces at the start of the
\* line form a word of their own.  A word starts at the first character and
\* at every character other than a space that follows a space.
find_words(line) ==
    LET starts_word(i) ==
            \/ i = 1
            \/ /\ SubSeq(line, i - 1, i - 1) = " "
               /\ SubSeq(line, i, i) # " "
        starts == SelectSeq([i \in 1..Len(line) |-> i], starts_word)
    IN  [k \in 1..Len(starts) |->
            SubSeq(line, starts[k],
                   IF k = Len(starts) THEN Len(line) ELSE starts[k + 1] - 1)]

\* textwrap's break_apart: a word wider than the line is cut into pieces no
\* wider than the line; the last piece keeps the spaces that follow the word.
RECURSIVE break_apart(_, _)
break_apart(word, line_width) ==
    IF display_width(trim_end(word)) <= line_width THEN <<word>>
    ELSE <<SubSeq(word, 1, line_width)>>
            \o break_apart(SubSeq(word, line_width + 1, Len(word)), line_width)

\* textwrap's break_words (Options::break_words is true by default)
RECURSIVE break_words(_, _)
break_words(words, line_width) ==
    IF words = <<>> THEN <<>>
    ELSE break_apart(Head(words), line_width)
            \o break_words(Tail(words), line_width)

\* textwrap's wrap_first_fit: a word goes to the next line when the line holds
\* a word already and the word, without the spaces that follow it, does not
\* fit any more.
RECURSIVE wrap_first_fit(_, _, _, _)
wrap_first_fit(words, line_width, current, width) ==
    IF words = <<>> THEN (IF current = <<>> THEN <<>> ELSE <<current>>)
    ELSE LET word == Head(words) IN
         IF width + display_width(trim_end(word)) > line_width /\ current # <<>>
            THEN <<current>> \o wrap_first_fit(words, line_width, <<>>, 0)
         ELSE wrap_first_fit(Tail(words), line_width, Append(current, word),
                             width + display_width(word))

\* textwrap::wrap for a text of one line: the words of every line joined, the
\* spaces at the end of the line dropped.  An empty text gives one empty line.
textwrap_wrap(content, width) ==
    IF content = "" THEN <<"">>
    ELSE LET lines == wrap_first_fit(
                        break_words(find_words(content), width),
                        width, <<>>, 0)
         IN  [i \in 1..Len(lines) |-> trim_end(join(lines[i], ""))]

\* str::lines
RECURSIVE lines_of(_)
lines_of(s) ==
    IF s = "" THEN <<>>
    ELSE IF \E i \in 1..Len(s) : SubSeq(s, i, i) = "\n" THEN
        LET i == CHOOSE k \in 1..Len(s) :
                    /\ SubSeq(s, k, k) = "\n"
                    /\ \A j \in 1..(k - 1) : SubSeq(s, j, j) # "\n"
        IN  <<SubSeq(s, 1, i - 1)>> \o lines_of(SubSeq(s, i + 1, Len(s)))
    ELSE <<s>>

\* format_kind
format_kind(kind) == IF kind = "System" THEN "sys" ELSE "usr"

write_wrapped_char_padded(content, width, first_line, other_lines) ==
    LET chunks == textwrap_wrap(content, width) IN
    [i \in 1..Len(chunks) |->
        LET fix == IF i = 1 THEN first_line ELSE other_lines IN
        fix[1] \o chunks[i]
            \o repeat(" ", saturating_sub(width, Len(chunks[i])))
            \o fix[2]]

\* write_wrapped: the lines it writes, every chunk between its prefix and its
\* suffix and padded with width - chunk.len() spaces.
write_wrapped(content, width, first_line, other_lines) ==
    LET chunks == textwrap_wrap(content, width) IN
    [i \in 1..Len(chunks) |->
        LET fix == IF i = 1 THEN first_line ELSE other_lines IN
        fix[1] \o chunks[i]
            \o repeat(" ", saturating_sub(width, len(chunks[i])))
            \o fix[2]]

\* write!(f, label) followed by the lines of write_wrapped: the label starts
\* the first of them.
after_label(label, lines) == <<label \o lines[1]>> \o Tail(lines)

\* write_box
write_box(title, content, box_chars, width) ==
    LET title_padding == repeat(box_chars.top, width - len(title) - 5)
        bottom_padding == repeat(box_chars.bottom, width - 2)
        body == lines_of(content)
        F[i \in 0..Len(body)] ==
            IF i = 0 THEN <<>>
            ELSE F[i - 1] \o write_wrapped(body[i], width,
                                <<box_chars.left, box_chars.right>>,
                                <<box_chars.left, box_chars.right>>)
    IN  <<box_chars.top_left \o box_chars.top \o " " \o title \o " "
            \o title_padding \o box_chars.top_right>>
        \o F[Len(body)]
        \o <<box_chars.bottom_left \o bottom_padding \o box_chars.bottom_right>>

cause_label_generic(cause, prefix) ==
    prefix \o repeat(HORIZONTAL, 5) \o " cause: "

\* The label of a cause block.
cause_label(cause, prefix) ==
    IF IsDomain(cause)
        THEN prefix \o " cause(" \o format_kind(cause[1].kind) \o "): "
    ELSE prefix \o repeat(HORIZONTAL, 5) \o " cause: "

RECURSIVE write_causes_all_branch(_, _)
write_causes_all_branch(cause, width) ==
    IF cause = <<>> THEN <<>>
    ELSE LET next == source(cause)
             prefix == BRANCH \o HORIZONTAL
             text == IF IsDomain(cause) THEN description(cause)
                     ELSE DisplayOpaque(cause)
         IN  <<VERTICAL>>
                \o after_label(cause_label(cause, prefix),
                        write_wrapped(text, width - 14, <<"", "">>,
                            <<VERTICAL \o repeat(" ", 13), "">>))
                \o write_causes_all_branch(next, width)

\* The cause loop of Renderer::fmt, `cause` being the value of `source` that
\* the loop tests.
RECURSIVE write_causes(_, _)
write_causes(cause, width) ==
    IF cause = <<>> THEN <<>>
    ELSE LET next == source(cause)
             prefix == IF next # <<>> THEN BRANCH \o HORIZONTAL
                       ELSE CORNER \o HORIZONTAL
             text == IF IsDomain(cause) THEN description(cause)
                     ELSE DisplayOpaque(cause)
         IN  <<VERTICAL>>
                \o after_label(cause_label(cause, prefix),
                        write_wrapped(text, width - 14, <<"", "">>,
                            <<VERTICAL \o repeat(" ", 13), "">>))
                \o write_causes(next, width)

write_advice_of_several(adv, width) ==
    IF Len(adv) > 1 THEN
        <<"">> \o write_box("Advice", " " \o BULLET \o " "
                    \o join(adv, "\n " \o BULLET \o " "), ROUND, width)
    ELSE <<>>

\* The advice part of Renderer::fmt
write_advice(adv, width) ==
    IF adv # <<>> THEN
        <<"">> \o write_box("Advice", " " \o BULLET \o " "
                    \o join(adv, "\n " \o BULLET \o " "), ROUND, width)
    ELSE <<>>

\* <Renderer as Display>::fmt: the lines written, each ended by a line feed in
\* the output.
fmt(error, width) ==
    after_label("error(" \o format_kind(error[1].kind) \o "):    ",
        write_wrapped(description(error), width - 14, <<"", "">>,
            <<VERTICAL \o repeat(" ", 14), "">>))
    \o write_causes(source(error), width)
    \o write_advice(advice(error), width)

\* pretty: Renderer { error: err, width: 80 }, displayed
pretty(e) == fmt(e, 80)

\* The usize subtraction a - b overflows: a panic in a build with overflow
\* checks, a wrapped value of about 2^64 otherwise.
overflows(a, b) == b > a

fmt_fails_with_advice(error, width) == advice(error) # <<>>

\* <Renderer as Display>::fmt on a sink that accepts every write does not get
\* to Ok(()): one of the subtractions width - 14, width - title.len() - 5 and
\* width - 2 overflows.  The padding is a saturating_sub and cannot.
fmt_fails(error, width) ==
    \/ overflows(width, 14)
    \/ /\ advice(error) # <<>>
       /\ \/ overflows(width, len("Advice"))
          \/ overflows(width - len("Advice"), 5)
          \/ overflows(width, 2)

\* format!("{}", pretty(err)) returns: fmt gave Ok(()).
pretty_ok(e) == ~fmt_fails(e, 80)

\* The largest number of layers around a leaf in the chains that are rendered.
MaxRendered == 3

\* Display texts of the innermost errors that are rendered: a short one, one
\* longer than a line, one longer than a line that holds a letter of two
\* bytes, and one with a word wider than a line.
RenderTexts ==
    {"underlying IO error",
     "Cannot open /var/lib/application/configuration/environments/production/settings/overrides.toml for reading",
     "The connection to the upstream service was closed before the whole response could be read.",
     "Le fichier demand" \o ACCENTED \o " n'a pas " \o ACCENTED \o "t" \o ACCENTED \o " trouv" \o ACCENTED \o " dans le r" \o ACCENTED \o "pertoire de configuration."}

\* Messages given to wrap(): a short one and one of several lines.
RenderMessages ==
    {"Failed to read configuration file.",
     "Could not start application due to a problem which resulted in an extremely long error message which we'd like to wrap nicely if possible because otherwise it's going to result in weird and broken formatting on some systems."}

\* Advice slices of the rendered nodes: none, a short item, an item longer
\* than the box is wide.
RenderAdvice ==
    {<<>>,
     <<"Check your configuration settings.">>,
     <<"Ensure the file exists and is readable by the account that runs the application, then start it again.">>}

InitPretty ==
    /\ err \in {Basic(text) : text \in RenderTexts}
    /\ res = NoResult

PrettyNew ==
    \E kind \in Kind, adv \in RenderAdvice :
        /\ Layers(err) < MaxRendered
        /\ err' = ErrorNew(err, kind, adv)
        /\ res' = NoResult

PrettyWrap ==
    \E msg \in RenderMessages :
        /\ Layers(err) < MaxRendered
        /\ err' = wrap(err, msg)
        /\ res' = NoResult

Pretty ==
    /\ IsDomain(err)
    /\ res' = [op |-> "pretty", val |-> pretty(err), ok |-> pretty_ok(err)]
    /\ UNCHANGED err

NextPretty ==
    \/ PrettyNew
    \/ PrettyWrap
    \/ Pretty

SpecPretty == InitPretty /\ [][NextPretty]_vars

\* ---------------------------------------------------------------------------
\* The traversals, one cursor move at a time
\* ---------------------------------------------------------------------------

\* The largest number of layers around a leaf in the chains that are walked.
MaxWalked == 3

\* The advice slices of the walked chains.
WalkAdvice == {<<>>, <<A1>>}

\* The traversals of a chain: the recursion of Error::description and the
\* loops of Error::advice, Error::caused_by and Renderer::fmt.
Walks == {"description", "advice", "caused_by", "pretty"}

\* The first position of the cursor: self.error for description, advice
\* (`cause`) and caused_by (`current_error`), self.error.source() for the cause
\* loop of the renderer (`source`).
walk_start(walk, self) ==
    IF walk = "pretty" THEN source(self) ELSE Inner(self)

\* The traversal has come to its end: description stands on an error that is
\* not a domain node, the loops have got None from source().
walk_done(walk, cursor) ==
    IF walk = "description" THEN ~IsDomain(cursor) ELSE cursor = <<>>

walk_next_stuck(walk, cursor) == cursor

\* The next position of the cursor: the wrapped error of the domain node for
\* description, the source() of the current error for the loops.
walk_next(walk, cursor) ==
    IF walk = "description" THEN Inner(cursor) ELSE source(cursor)

\* The number of errors a cursor position stands for.
walk_count(cursor) == IF cursor = <<>> THEN 0 ELSE 1

\* No traversal is under way: a call on &self returns before the next call
\* is made or the value is moved into a new layer.
Idle == IF res.op = "walk" THEN walk_done(res.walk, res.cursor) ELSE TRUE

WalkNew ==
    \E kind \in Kind, adv \in WalkAdvice :
        /\ Idle
        /\ Layers(err) < MaxWalked
        /\ err' = ErrorNew(err, kind, adv)
        /\ res' = NoResult

WalkWrap ==
    \E msg \in Messages :
        /\ Idle
        /\ Layers(err) < MaxWalked
        /\ err' = wrap(err, msg)
        /\ res' = NoResult

WalkStart ==
    \E walk \in Walks :
        /\ Idle
        /\ IsDomain(err)
        /\ res' = [op |-> "walk", walk |-> walk,
                   cursor |-> walk_start(walk, err),
                   visited |-> walk_count(walk_start(walk, err))]
        /\ UNCHANGED err

WalkStep ==
    /\ res.op = "walk"
    /\ ~walk_done(res.walk, res.cursor)
    /\ res.visited <= Len(err)
    /\ res' = [res EXCEPT
                !.cursor = walk_next(res.walk, res.cursor),
                !.visited = res.visited
                    + walk_count(walk_next(res.walk, res.cursor))]
    /\ UNCHANGED err

NextWalk ==
    \/ WalkNew
    \/ WalkWrap
    \/ WalkStart
    \/ WalkStep

\* A traversal that has started keeps moving: the calls are synchronous and
\* nothing suspends them.
SpecWalk == Init /\ [][NextWalk]_vars /\ WF_vars(WalkStep)

\* ---------------------------------------------------------------------------
\* The deduplication set of Error::advice, and all the reads of one chain
\* ---------------------------------------------------------------------------

\* The RandomState keys a run of the program draws for its hash sets.  They
\* decide the order in which a HashSet is iterated, which is unspecified.
HashKeys == {"first", "second"}

\* std::collections::HashSet::new(): the items in their iteration order.
HashSetNew == <<>>

\* HashSet::insert: whether the item was not held yet, and the set afterwards.
\* Under the first keys a new item is iterated last, under the second first.
insert(seen, item, keys) ==
    IF \E j \in 1..Len(seen) : seen[j] = item
        THEN [inserted |-> FALSE, seen |-> seen]
    ELSE [inserted |-> TRUE,
          seen |-> IF keys = "first" THEN Append(seen, item)
                   ELSE <<item>> \o seen]

\* advice.retain(|item| seen.insert(*item)) with `seen` a new HashSet: the
\* items kept and the set at the end.
retain(s, keys) ==
    LET F[i \in 0..Len(s)] ==
            IF i = 0 THEN [kept |-> <<>>, seen |-> HashSetNew]
            ELSE LET r == insert(F[i - 1].seen, s[i], keys) IN
                 [kept |-> IF r.inserted THEN Append(F[i - 1].kept, s[i])
                           ELSE F[i - 1].kept,
                  seen |-> r.seen]
    IN  F[Len(s)]

advice_iterating_seen(self, keys) ==
    retain(reverse(self[1].advice \o advice_walk(Inner(self))), keys).seen

\* Error::advice in a run with the given keys
advice_run(self, keys) ==
    retain(reverse(self[1].advice \o advice_walk(Inner(self))), keys).kept

AdviceRun ==
    \E keys \in HashKeys :
        /\ IsDomain(err)
        /\ res' = [op |-> "advice", keys |-> keys, val |-> advice_run(err, keys)]
        /\ UNCHANGED err

MaxRead == 2

ReadNew ==
    \E kind \in Kind, adv \in AdviceSlices :
        /\ Layers(err) < MaxRead
        /\ err' = ErrorNew(err, kind, adv)
        /\ res' = NoResult

ReadWrap ==
    \E msg \in Messages :
        /\ Layers(err) < MaxRead
        /\ err' = wrap(err, msg)
        /\ res' = NoResult

\* Every read operation on chains of any shape.
NextReads ==
    \/ ReadNew
    \/ ReadWrap
    \/ Is
    \/ Description
    \/ Advice
    \/ CausedBy
    \/ Message
    \/ Source
    \/ Pretty
    \/ AdviceRun

SpecReads == Init /\ [][NextReads]_vars

\* ---------------------------------------------------------------------------
\* Helpers of the properties
\* ---------------------------------------------------------------------------

Range(s) == {s[i] : i \in 1..Len(s)}

NoDuplicates(s) == \A i, j \in 1..Len(s) : i # j => s[i] # s[j]

\* Positions of the domain nodes of a chain.
NodePositions(e) == {i \in 1..Len(e) : e[i].t = "node"}

\* Every advice string some domain node of the chain declares.
DeclaredAdvice(e) == UNION {Range(e[i].advice) : i \in NodePositions(e)}

StartsWith(s, prefix) ==
    Len(s) >= Len(prefix) /\ SubSeq(s, 1, Len(prefix)) = prefix

Contains(s, part) ==
    \E i \in 1..(Len(s) + 1) :
        i + Len(part) - 1 <= Len(s) /\ SubSeq(s, i, i + Len(part) - 1) = part

\* ---------------------------------------------------------------------------
\* C1
\* ---------------------------------------------------------------------------

\* The position of the domain node that is the cause of the head: the wrapped
\* error itself (Error::new(cause, ..)), or the inner error of the message
\* wrapper (wrap_user / wrap_system); 0 when the head has no such cause.
C1_CausePosition ==
    IF Len(err) >= 2 /\ err[2].t = "node" THEN 2
    ELSE IF Len(err) >= 3 /\ err[2].t = "wrap" /\ err[3].t = "node" THEN 3
    ELSE 0

\* The head declares one advice string, its cause is a domain node that
\* declares one, and nothing below the cause declares any.
C1_Pair ==
    /\ IsDomain(err)
    /\ Len(err[1].advice) = 1
    /\ C1_CausePosition # 0
    /\ Len(err[C1_CausePosition].advice) = 1
    /\ \A i \in NodePositions(err) : i > C1_CausePosition => err[i].advice = <<>>

\* C1: for a head with own advice [a] whose cause is a domain node with own
\* advice [b], advice() is exactly [b, a] when a # b and exactly [b] when
\* a = b, for a cause wrapped directly and for one attached through a message
\* wrapper alike.
C1_AdviceOfPair ==
    (res.op = "advice" /\ C1_Pair) =>
        LET a == err[1].advice[1]
            b == err[C1_CausePosition].advice[1]
        IN  res.val = IF a # b THEN <<b, a>> ELSE <<b>>

\* A head built by wrap_user / wrap_system over a domain cause with a
\* different advice string, read with advice().
C1_Witness ==
    /\ res.op = "advice"
    /\ C1_Pair
    /\ C1_CausePosition = 3
    /\ err[1].advice # err[3].advice

\* The other case of C1: a directly wrapped cause with the same advice string.
C1_WitnessDirectSame ==
    /\ res.op = "advice"
    /\ C1_Pair
    /\ C1_CausePosition = 2
    /\ err[1].advice = err[2].advice

\* ---------------------------------------------------------------------------
\* C2
\* ---------------------------------------------------------------------------

\* C2: advice() gathers all advice: the set of strings it returns is the union
\* of the advice declared by the head and by every domain node of its chain,
\* whatever the order of domain nodes and opaque errors in the chain.
C2_AdviceGathersAll ==
    res.op = "advice" => Range(res.val) = DeclaredAdvice(err)

\* What the code does gather: advice() never invents a string.
C2_AdviceOnlyDeclared ==
    res.op = "advice" => Range(res.val) \subseteq DeclaredAdvice(err)

\* ---------------------------------------------------------------------------
\* C3
\* ---------------------------------------------------------------------------

\* A chain built with wrap_user / wrap_system alone: domain nodes at the odd
\* positions, their message wrappers at the even ones, the leaf last.
C3_WrappedChain(e) ==
    /\ Len(e) % 2 = 1
    /\ \A i \in 1..(Len(e) - 1) :
        e[i].t = (IF i % 2 = 1 THEN "node" ELSE "wrap")

\* All the advice the nodes of the chain declare, head first.
RECURSIVE C3_AllDeclared(_)
C3_AllDeclared(e) ==
    IF e = <<>> THEN <<>>
    ELSE (IF e[1].t = "node" THEN e[1].advice ELSE <<>>) \o C3_AllDeclared(Tail(e))

C3_Case ==
    /\ C3_WrappedChain(err)
    /\ NodeCount(err) >= 2
    /\ NoDuplicates(C3_AllDeclared(err))

\* C3: advice() is ordered deepest-first: in a chain of n >= 2 domain nodes
\* built with wrap_user / wrap_system whose declared advice strings are
\* pairwise distinct, every advice string of a deeper node comes before every
\* advice string of a shallower node, so that the head's advice comes last.
C3_AdviceDeepestFirst ==
    (res.op = "advice" /\ C3_Case) =>
        \A shallow, deep \in NodePositions(err) :
            shallow < deep =>
                \A x \in Range(err[deep].advice), y \in Range(err[shallow].advice) :
                    \E i, j \in 1..Len(res.val) :
                        i < j /\ res.val[i] = x /\ res.val[j] = y

\* Three nodes that all declare advice, read with advice().
C3_Witness ==
    /\ res.op = "advice"
    /\ C3_Case
    /\ NodeCount(err) = 3
    /\ \A i \in NodePositions(err) : err[i].advice # <<>>

\* ---------------------------------------------------------------------------
\* C4
\* ---------------------------------------------------------------------------

\* The accumulated list of Error::advice after advice.reverse().
C4_Reversed == reverse(err[1].advice \o advice_walk(Inner(err)))

\* The first position of x in s.
C4_First(s, x) == CHOOSE i \in 1..Len(s) : s[i] = x /\ \A j \in 1..(i - 1) : s[j] # x

\* C4: advice() never holds a string twice; of a string declared more than
\* once the occurrence that survives is the first one of the reversed list (the
\* deepest declaration), and the other items keep their relative order.
C4_AdviceDeduplicated ==
    res.op = "advice" =>
        /\ NoDuplicates(res.val)
        /\ Range(res.val) = Range(C4_Reversed)
        /\ \A i, j \in 1..Len(res.val) :
            i < j => C4_First(C4_Reversed, res.val[i]) < C4_First(C4_Reversed, res.val[j])

\* A string is declared twice with another string between the two
\* declarations, so that keeping the first and keeping the last differ.
C4_Witness ==
    /\ res.op = "advice"
    /\ Len(C4_Reversed) = 3
    /\ C4_Reversed[1] = C4_Reversed[3]
    /\ C4_Reversed[1] # C4_Reversed[2]
    /\ Len(res.val) = 2

\* ---------------------------------------------------------------------------
\* C5
\* ---------------------------------------------------------------------------

\* The error the source() walk stands on after k steps from e (<<>> once the
\* walk has ended).
RECURSIVE C5_Step(_, _)
C5_Step(e, k) ==
    IF k = 0 \/ e = <<>> THEN e ELSE C5_Step(source(e), k - 1)

\* The number of steps of the source() walk from e.
C5_Steps(e) == Cardinality({k \in 1..Len(e) : C5_Step(e, k) # <<>>})

\* An advice string that one node of the chain declares, once.
C5_DeclaredOnce(x) ==
    Cardinality({i \in 1..Len(C3_AllDeclared(err)) : C3_AllDeclared(err)[i] = x}) = 1

\* C5: caused_by() yields one entry per step of the source() walk from the
\* wrapped error, immediate cause first and deepest cause last; the entry of a
\* step is the cause's description() for a domain node and its Display text
\* otherwise.  The order is the opposite of advice(): of two domain causes the
\* earlier entry of caused_by() belongs to the one whose advice comes later.
C5_CausedByOrder ==
    res.op = "caused_by" =>
        /\ Len(res.val) = C5_Steps(Inner(err))
        /\ \A k \in 1..Len(res.val) :
            LET cause == C5_Step(Inner(err), k)
            IN  res.val[k] = IF IsDomain(cause) THEN description(cause)
                             ELSE DisplayOpaque(cause)
        /\ \A k1, k2 \in 1..Len(res.val) :
            LET c1 == C5_Step(Inner(err), k1)
                c2 == C5_Step(Inner(err), k2)
            IN  (k1 < k2 /\ IsDomain(c1) /\ IsDomain(c2)) =>
                    \A x \in Range(c1[1].advice), y \in Range(c2[1].advice) :
                        (C5_DeclaredOnce(x) /\ C5_DeclaredOnce(y)) =>
                            \E i, j \in 1..Len(advice(err)) :
                                i < j /\ advice(err)[i] = y /\ advice(err)[j] = x

\* Two domain causes with different descriptions and different advice, and an
\* opaque root cause, read with caused_by().
C5_Witness ==
    /\ res.op = "caused_by"
    /\ Len(res.val) = 3
    /\ res.val[1] # res.val[2]
    /\ IsDomain(C5_Step(Inner(err), 1))
    /\ IsDomain(C5_Step(Inner(err), 2))
    /\ ~IsDomain(C5_Step(Inner(err), 3))
    /\ \E x \in Range(C5_Step(Inner(err), 1)[1].advice),
          y \in Range(C5_Step(Inner(err), 2)[1].advice) :
            C5_DeclaredOnce(x) /\ C5_DeclaredOnce(y)

\* ---------------------------------------------------------------------------
\* C6
\* ---------------------------------------------------------------------------

\* The position of the first error below the head that is not a domain node:
\* where the run of transparent wraps ends.
C6_FirstOpaque == CHOOSE i \in 2..Len(err) :
    err[i].t # "node" /\ \A j \in 2..(i - 1) : err[j].t = "node"

\* C6: description() is exactly the Display text of the wrapped error when
\* that error is not a domain node (Error::new(text, ..).description() = text),
\* and through any number of nested transparent wraps it is the Display text
\* of the first error that is not a domain node.
C6_DescriptionRoundTrip ==
    res.op = "description" =>
        /\ res.val = (IF err[C6_FirstOpaque].t = "wrap"
                      THEN err[C6_FirstOpaque].message
                      ELSE err[C6_FirstOpaque].text)
        /\ \A text \in Texts, kind \in Kind, adv \in AdviceSlices :
            err = ErrorNew(Basic(text), kind, adv) => res.val = text

\* Two nested transparent wraps over a message wrapper, read with
\* description().
C6_Witness ==
    /\ res.op = "description"
    /\ C6_FirstOpaque = 3
    /\ err[3].t = "wrap"
    /\ res.val = err[3].message

\* The other case of C6: the round trip of a plain text.
C6_WitnessRoundTrip ==
    /\ res.op = "description"
    /\ Len(err) = 2
    /\ res.val = err[2].text

\* ---------------------------------------------------------------------------
\* C7
\* ---------------------------------------------------------------------------

\* The items of a section, each on a line of its own after " - ".
RECURSIVE C7_Items(_)
C7_Items(items) ==
    IF items = <<>> THEN "" ELSE "\n - " \o items[1] \o C7_Items(Tail(items))

\* A section: nothing for an empty list, else a blank line, the title and the
\* items.
C7_Section(title, items) ==
    IF items = <<>> THEN "" ELSE "\n\n" \o title \o C7_Items(items)

C7_HeroLine == format_description(err[1].kind, description(err))

C7_WitnessHeroOnly ==
    /\ res.op = "message"
    /\ caused_by(err) = <<>>
    /\ advice(err) = <<>>
    /\ res.val = C7_HeroLine

\* ---------------------------------------------------------------------------
\* C8
\* ---------------------------------------------------------------------------

\* The hero line: message() up to its first line break.
C8_FirstLine(s) ==
    LET breaks == {i \in 1..Len(s) : SubSeq(s, i, i) = "\n"}
    IN  IF breaks = {} THEN s
        ELSE SubSeq(s, 1, (CHOOSE i \in breaks : \A j \in breaks : i <= j) - 1)

C9_HeroLineFriendly ==
    res.op = "message" =>
        /\ C8_FirstLine(res.val) =
            (IF is(err, "User") THEN "Oh no! " \o description(err)
             ELSE "Whoops! " \o description(err) \o " (This isn't your fault)")
        /\ err = user(wrap(Basic("You got rate limited"), "Something bad happened."), <<A1>>)
            => res.val = "Oh no! Something bad happened.\n\nThis was caused by:\n - You got rate limited\n\nTo try and fix this, you can:\n - Avoid bad things happening in future"

\* What the code prints for the example of C9.
C9_ExampleAsCoded ==
    (res.op = "message"
        /\ err = user(wrap(Basic("You got rate limited"), "Something bad happened."), <<A1>>))
    => res.val = "Something bad happened. (User error)\n\nThis was caused by:\n - You got rate limited\n\nTo try and fix this, you can:\n - Avoid bad things happening in future"

\* ---------------------------------------------------------------------------
\* C10
\* ---------------------------------------------------------------------------

\* user(wrap(inner, msg), advice) or system(wrap(inner, msg), advice) with an
\* opaque inner error that has no source.
C10_Case ==
    /\ Len(err) = 3
    /\ \E text \in Texts, msg \in Messages, adv \in AdviceSlices :
        err \in {user(wrap(Basic(text), msg), adv), system(wrap(Basic(text), msg), adv)}

\* C10: for user(wrap(inner, msg), advice) or system(wrap(inner, msg), advice)
\* with an opaque inner error without source, description() is msg,
\* caused_by() is [Display(inner)], and message() contains
\* "This was caused by:\n - <Display(inner)>" and, for each advice given,
\* "To try and fix this, you can:\n - <advice item>" with the item listed
\* first.
C10_WrappedOpaque ==
    C10_Case =>
        /\ res.op = "description" => res.val = err[2].message
        /\ res.op = "caused_by" => res.val = <<err[3].text>>
        /\ res.op = "message" =>
            /\ Contains(res.val, "This was caused by:\n - " \o err[3].text)
            /\ err[1].advice # <<>> =>
                Contains(res.val, "To try and fix this, you can:\n - "
                                    \o err[1].advice[Len(err[1].advice)])

\* The scenario of the specification, read with message().
C10_Witness ==
    /\ res.op = "message"
    /\ err = user(wrap(Basic("You got rate limited"), "Something bad happened."), <<A1>>)
    /\ Contains(res.val, "This was caused by:\n - You got rate limited")
    /\ Contains(res.val, "To try and fix this, you can:\n - Avoid bad things happening in future")

\* ---------------------------------------------------------------------------
\* C11
\* ---------------------------------------------------------------------------

\* A step that builds a domain node with Error::new, user, system, wrap_user
\* or wrap_system: the new outermost layer is a node around the former value
\* (or around a message wrapper of it).
C11_Built(kind) ==
    /\ IsDomain(err')
    /\ Len(err') > Len(err)
    /\ err'[1].kind = kind

C12_UserOps == {"or_user_err", "wrap_user_err", "ok_or_user_err"}

C12_SystemOps == {"or_system_err", "wrap_system_err", "ok_or_system_err"}

\* The receiver of the last call was Ok(_) or Some(_).
C12_Success == IF "ok" \in DOMAIN res.self THEN res.self.ok ELSE res.self.some

\* C12: an extension method hands a success value through unchanged; on a
\* failure or an absent value the or_user_err / wrap_user_err / ok_or_user_err
\* methods return an error node of kind User and the or_system_err /
\* wrap_system_err / ok_or_system_err methods one of kind System.
C12_ExtensionKinds ==
    (res.op \in C12_UserOps \cup C12_SystemOps) =>
        IF C12_Success THEN res.val = Ok(res.self.value)
        ELSE /\ ~res.val.ok
             /\ IsDomain(res.val.error)
             /\ is(res.val.error, "User") <=> (res.op \in C12_UserOps)
             /\ is(res.val.error, "System") <=> (res.op \in C12_SystemOps)

\* or_system_err was called on a failure whose payload is a User node.
C12_Witness ==
    /\ res.op = "or_system_err"
    /\ ~res.self.ok
    /\ IsDomain(res.self.error)
    /\ is(res.self.error, "User")
    /\ is(res.val.error, "System")

\* ---------------------------------------------------------------------------
\* C13
\* ---------------------------------------------------------------------------

\* C13: after None.ok_or_user_err(msg, advice), None.ok_or_system_err(msg,
\* advice), Err(e).wrap_user_err(msg, advice) and Err(e).wrap_system_err(msg,
\* advice), message() of the returned error is exactly msg.
C13_MessageIsMsg ==
    (/\ res.op \in {"ok_or_user_err", "ok_or_system_err",
                    "wrap_user_err", "wrap_system_err"}
     /\ ~C12_Success) =>
        message(res.val.error) = res.msg

\* ---------------------------------------------------------------------------
\* C14
\* ---------------------------------------------------------------------------

\* The kinds of I/O error that are the user's to fix.
C14_UserKinds ==
    {"NotFound", "PermissionDenied", "AlreadyExists", "DirectoryNotEmpty",
     "AddrInUse"}

\* The canned description of each kind.
C14_Canned(kind) ==
    CASE kind = "NotFound" -> "Could not find the requested file."
      [] kind = "PermissionDenied" ->
            "Permission denied when trying to access the requested resource."
      [] kind = "AlreadyExists" ->
            "The file or directory you are trying to create already exists."
      [] kind = "AddrInUse" ->
            "The network address you are trying to bind to is already in use."
      [] kind = "DirectoryNotEmpty" ->
            "The directory you are trying to remove is not empty."
      [] OTHER -> "An internal error occurred which we could not recover from."

\* C14: an I/O error of kind NotFound, PermissionDenied, AlreadyExists,
\* DirectoryNotEmpty or AddrInUse converts to a User node and any other kind to
\* a System node; the description is the canned message of the kind, advice()
\* is one string, the one the node declares, and the first entry of
\* caused_by() is the Display text of the I/O error.
C14_IoConversion ==
    (res.op = "from") =>
        LET kind == res.self[1].io IN
        /\ is(res.val, "User") <=> (kind \in C14_UserKinds)
        /\ is(res.val, "System") <=> (kind \notin C14_UserKinds)
        /\ description(res.val) = C14_Canned(kind)
        /\ Len(advice(res.val)) = 1
        /\ advice(res.val) = res.val[1].advice
        /\ caused_by(res.val) # <<>>
        /\ caused_by(res.val)[1] = IoText(kind)
        /\ source(res.val) = res.self

\* A DirectoryNotEmpty error was converted.
C14_Witness ==
    /\ res.op = "from"
    /\ res.self[1].io = "DirectoryNotEmpty"
    /\ is(res.val, "User")

\* Another case of C14: an error of a kind the conversion does not name.
C14_WitnessOther ==
    /\ res.op = "from"
    /\ res.self[1].io = "TimedOut"
    /\ is(res.val, "System")

\* ---------------------------------------------------------------------------
\* C15
\* ---------------------------------------------------------------------------

\* The top border of the advice box.
C15_IsBoxTop(line) ==
    StartsWith(line, ROUND.top_left \o ROUND.top \o " Advice ")

C15_IsBoxBottom(line) == StartsWith(line, ROUND.bottom_left \o ROUND.bottom)

\* The positions of the top borders among the rendered lines.
C15_BoxTops(lines) == {i \in 1..Len(lines) : C15_IsBoxTop(lines[i])}

\* The content lines of the advice box: the lines after the top border but
\* the last one, which is the bottom border.
C15_BoxLines(lines) ==
    LET top == CHOOSE i \in C15_BoxTops(lines) : TRUE
    IN  SubSeq(lines, top + 1, Len(lines) - 1)

\* The text inside the box: the content lines without their borders and
\* padding, joined by single spaces.
C15_BoxText(lines) ==
    LET body == C15_BoxLines(lines)
    IN  join([i \in 1..Len(body) |->
                trim_end(SubSeq(body[i], 2, Len(body[i]) - 1))], " ")

C15_HasSection == Contains(message(err), "\n\nTo try and fix this, you can:\n - ")

\* The advice declared by the domain nodes that the source() walk from the
\* head passes.
C15_CauseAdvice ==
    UNION {Range(C5_Step(err, k)[1].advice) :
            k \in {j \in 1..Len(err) : IsDomain(C5_Step(err, j))}}

C15_WitnessNoAdvice ==
    /\ res.op = "pretty"
    /\ DeclaredAdvice(err) = {}
    /\ Len(err) > 2

\* ---------------------------------------------------------------------------
\* C16
\* ---------------------------------------------------------------------------

\* The lines of the advice box, borders included.
C16_Box(lines) ==
    LET top == CHOOSE i \in C15_BoxTops(lines) : TRUE
    IN  SubSeq(lines, top, Len(lines))

\* C16: every line of the advice box of pretty(), the titled top border, the
\* content lines between their side borders and the bottom border, is 80
\* columns wide.
C16_BoxWidth ==
    (res.op = "pretty" /\ C15_BoxTops(res.val) # {}) =>
        \A i \in 1..Len(C16_Box(res.val)) :
            display_width(C16_Box(res.val)[i]) = 80

\* ---------------------------------------------------------------------------
\* C17
\* ---------------------------------------------------------------------------

\* The number of lines of pretty() before its advice part.
C17_DescEnd(lines) ==
    IF C15_BoxTops(lines) = {} THEN Len(lines)
    ELSE (CHOOSE i \in C15_BoxTops(lines) : TRUE) - 2

\* The role of a line of the description part: the first line of the head, a
\* bare connector, the first line of a cause, or a continuation line.
C17_Role(lines, i) ==
    IF i = 1 THEN "head"
    ELSE IF lines[i] = VERTICAL THEN "connector"
    ELSE IF SubSeq(lines[i], 1, 1) \in {BRANCH, CORNER} THEN "cause"
    ELSE "continuation"

\* The lines of the description part that carry wrapped text.
C17_TextLines(lines) ==
    {i \in 1..C17_DescEnd(lines) : C17_Role(lines, i) # "connector"}

\* The width of what precedes the wrapped text on a line: the label on the
\* first line of a block, the connector and the indent on a continuation
\* line.
C17_PrefixWidth(lines, i) ==
    LET line == lines[i] IN
    CASE C17_Role(lines, i) = "head" ->
            display_width("error(" \o format_kind(err[1].kind) \o "):    ")
      [] C17_Role(lines, i) = "cause" ->
            (IF StartsWith(SubSeq(line, 3, Len(line)), " cause(")
                THEN display_width(SubSeq(line, 1, 2) \o " cause(usr): ")
             ELSE display_width(SubSeq(line, 1, 2) \o repeat(HORIZONTAL, 5)
                                    \o " cause: "))
      [] OTHER ->
            (CHOOSE j \in 2..Len(line) :
                /\ SubSeq(line, j, j) # " "
                /\ \A k \in 2..(j - 1) : SubSeq(line, k, k) = " ") - 1

\* C17: a description wider than the wrap budget of 66 columns is written on
\* several lines, and on every line of a description the wrapped text and its
\* padding take exactly 66 columns, whatever the characters of the text.
C17_PaddedToBudget ==
    (res.op = "pretty") =>
        /\ (display_width(description(err)) > 66) =>
                (Len(res.val) >= 2 /\ C17_Role(res.val, 2) = "continuation")
        /\ \A i \in C17_TextLines(res.val) :
                display_width(res.val[i]) - C17_PrefixWidth(res.val, i) = 66

\* ---------------------------------------------------------------------------
\* C18
\* ---------------------------------------------------------------------------

\* C18: no line of pretty() is wider than 80 columns: the label of the first
\* line of a block and the wrap budget add up to 80, and so do the
\* continuation prefix and the wrap budget.
C18_WithinWidth ==
    (res.op = "pretty") =>
        /\ \A i \in 1..Len(res.val) : display_width(res.val[i]) <= 80
        /\ \A i \in C17_TextLines(res.val) :
                C17_PrefixWidth(res.val, i) + 66 = 80

\* ---------------------------------------------------------------------------
\* C19
\* ---------------------------------------------------------------------------

\* The first line of the block a text line belongs to.
C19_BlockStart(lines, i) ==
    CHOOSE j \in 1..i :
        /\ C17_Role(lines, j) \in {"head", "cause"}
        /\ \A k \in (j + 1)..i : C17_Role(lines, k) = "continuation"

\* C19: the continuation lines of a wrapped head or cause description start
\* their text in the column where the text of the block's first line starts:
\* the connector and the indent are as wide as the label.
C19_ContinuationAligned ==
    (res.op = "pretty") =>
        \A i \in C17_TextLines(res.val) :
            C17_PrefixWidth(res.val, i)
                = C17_PrefixWidth(res.val, C19_BlockStart(res.val, i))

\* ---------------------------------------------------------------------------
\* C20
\* ---------------------------------------------------------------------------

\* The first lines of the cause blocks of pretty(), in the order of the
\* output.
C20_CauseStarts(lines) ==
    LET is_cause(i) == i <= C17_DescEnd(lines) /\ C17_Role(lines, i) = "cause"
    IN  SelectSeq([i \in 1..Len(lines) |-> i], is_cause)

\* The last line of the block that starts at line j.
C20_BlockEnd(lines, j) ==
    CHOOSE k \in j..C17_DescEnd(lines) :
        /\ \A m \in (j + 1)..k : C17_Role(lines, m) = "continuation"
        /\ (k = C17_DescEnd(lines) \/ C17_Role(lines, k + 1) # "continuation")

\* The text of the block that starts at line j: the wrapped pieces without
\* prefix and padding, joined by single spaces.
C20_BlockText(lines, j) ==
    join([m \in 1..(C20_BlockEnd(lines, j) - j + 1) |->
            LET line == lines[j + m - 1] IN
            trim_end(SubSeq(line, C17_PrefixWidth(lines, j + m - 1) + 1,
                            Len(line)))], " ")

\* A text without its spaces.
RECURSIVE C20_Squeezed(_)
C20_Squeezed(s) ==
    IF Len(s) <= 1 THEN (IF s = " " THEN "" ELSE s)
    ELSE C20_Squeezed(SubSeq(s, 1, Len(s) \div 2))
            \o C20_Squeezed(SubSeq(s, Len(s) \div 2 + 1, Len(s)))

\* The label a cause block must carry: the kind tag of a domain node, the
\* generic label of any other error.
C20_Label(cause) ==
    IF IsDomain(cause) THEN
        (IF is(cause, "User") THEN " cause(usr): " ELSE " cause(sys): ")
    ELSE repeat(HORIZONTAL, 5) \o " cause: "

\* C20: pretty() writes one cause block per entry of caused_by(), in the same
\* order; the i-th block holds the text of the i-th entry, whatever the
\* places where it is cut into lines, and is labelled
\* cause(usr) or cause(sys) by the kind of the cause when the cause is a
\* domain node, and with the generic label otherwise.
C20_CauseBlocks ==
    (res.op = "pretty") =>
        LET starts == C20_CauseStarts(res.val) IN
        /\ Len(starts) = Len(caused_by(err))
        /\ \A i \in 1..Len(starts) :
            /\ C20_Squeezed(C20_BlockText(res.val, starts[i]))
                    = C20_Squeezed(caused_by(err)[i])
            /\ StartsWith(SubSeq(res.val[starts[i]], 3, Len(res.val[starts[i]])),
                          C20_Label(C5_Step(err, i)))

\* A rendered User chain whose one cause is a System node.
C20_Witness ==
    /\ res.op = "pretty"
    /\ is(err, "User")
    /\ Len(caused_by(err)) = 1
    /\ IsDomain(C5_Step(err, 1))
    /\ is(C5_Step(err, 1), "System")
    /\ Len(C20_CauseStarts(res.val)) = 1

\* Another case of C20: a rendered chain with two causes of different texts,
\* the first of them on several lines.
C20_WitnessTwoCauses ==
    /\ res.op = "pretty"
    /\ Len(caused_by(err)) = 2
    /\ caused_by(err)[1] # caused_by(err)[2]
    /\ display_width(caused_by(err)[1]) > 66
    /\ Len(C20_CauseStarts(res.val)) = 2

\* ---------------------------------------------------------------------------
\* C21
\* ---------------------------------------------------------------------------

\* C21: of the n >= 1 cause blocks of pretty() the first n - 1 start with the
\* branch connector and the last with the terminal connector, which starts no
\* other cause line; the line before the first line of every cause block is
\* the bare vertical connector; after the last cause block comes nothing but
\* the advice part.
C21_Connectors ==
    (res.op = "pretty") =>
        LET lines == res.val
            starts == C20_CauseStarts(lines)
            n == Len(starts)
        IN  /\ n = Len(caused_by(err))
            /\ \A i \in 1..n :
                /\ SubSeq(lines[starts[i]], 1, 2) =
                        (IF i < n THEN BRANCH \o HORIZONTAL
                         ELSE CORNER \o HORIZONTAL)
                /\ starts[i] > 1
                /\ lines[starts[i] - 1] = VERTICAL
            /\ Cardinality({i \in 1..C17_DescEnd(lines) :
                    StartsWith(lines[i], CORNER \o HORIZONTAL)}) =
                        (IF n >= 1 THEN 1 ELSE 0)
            /\ Cardinality({i \in 1..C17_DescEnd(lines) :
                    lines[i] = VERTICAL}) = n
            /\ (n >= 1) =>
                    C20_BlockEnd(lines, starts[n]) = C17_DescEnd(lines)

\* A rendered chain with two causes and an advice box.
C21_Witness ==
    /\ res.op = "pretty"
    /\ Len(C20_CauseStarts(res.val)) = 2
    /\ StartsWith(res.val[C20_CauseStarts(res.val)[1]], BRANCH \o HORIZONTAL)
    /\ StartsWith(res.val[C20_CauseStarts(res.val)[2]], CORNER \o HORIZONTAL)
    /\ C15_BoxTops(res.val) # {}

\* ---------------------------------------------------------------------------
\* C22
\* ---------------------------------------------------------------------------

\* C22: the lines of a wrapped description end only where the description has
\* a space, never inside a word: the pieces of the head block joined by single
\* spaces are description(), and those of the i-th cause block the i-th entry
\* of caused_by(), also when a word is wider than the wrap budget.
C22_BreaksAtWhitespace ==
    (res.op = "pretty") =>
        LET starts == C20_CauseStarts(res.val) IN
        /\ C20_BlockText(res.val, 1) = description(err)
        /\ \A i \in 1..Len(starts) :
                i <= Len(caused_by(err)) =>
                    C20_BlockText(res.val, starts[i]) = caused_by(err)[i]

\* ---------------------------------------------------------------------------
\* C23
\* ---------------------------------------------------------------------------

\* C23: rendering a chain into a sink that accepts every write returns Ok:
\* for the width 80 and the title "Advice" none of width - 14,
\* width - title.len() - 5 and width - 2 overflows, and every line written is
\* at least as wide as what precedes its padding.
C23_RenderingSucceeds ==
    (res.op = "pretty") =>
        /\ res.ok
        /\ ~overflows(80, 14)
        /\ ~overflows(80, len("Advice"))
        /\ ~overflows(80 - len("Advice"), 5)
        /\ ~overflows(80, 2)
        /\ Len(res.val) >= 1
        /\ \A i \in C17_TextLines(res.val) :
                display_width(res.val[i]) >= C17_PrefixWidth(res.val, i)

\* A chain with a cause and advice was rendered.
C23_Witness ==
    /\ res.op = "pretty"
    /\ res.ok
    /\ caused_by(err) # <<>>
    /\ advice(err) # <<>>
    /\ C15_BoxTops(res.val) # {}

\* ---------------------------------------------------------------------------
\* C24
\* ---------------------------------------------------------------------------

\* C24: every traversal of a chain comes to its end, visits no more errors
\* than the chain has, and moves its cursor only to a strictly shorter rest of
\* the chain.
C24_TraversalsTerminate ==
    /\ [](res.op = "walk" =>
            /\ res.visited <= Len(err)
            /\ Len(res.cursor) < Len(err))
    /\ [][(res.op = "walk" /\ res'.op = "walk" /\ res' # res /\ err' = err
                /\ res'.walk = res.walk /\ res'.visited > res.visited) =>
            Len(res'.cursor) < Len(res.cursor)]_vars
    /\ \A walk \in Walks :
        (res.op = "walk" /\ res.walk = walk)
            ~> (res.op = "walk" /\ res.walk = walk
                    /\ walk_done(walk, res.cursor))

\* The cause loop has taken two steps and come to its end.
C24_Witness ==
    /\ res.op = "walk"
    /\ res.walk = "caused_by"
    /\ res.visited = 3
    /\ walk_done(res.walk, res.cursor)

\* ---------------------------------------------------------------------------
\* C25
\* ---------------------------------------------------------------------------

\* The value a read operation returns for a chain.
C25_Computed(r, e) ==
    CASE r.op = "is" -> is(e, r.arg)
      [] r.op = "description" -> description(e)
      [] r.op = "advice" -> advice(e)
      [] r.op = "caused_by" -> caused_by(e)
      [] r.op = "message" -> message(e)
      [] r.op = "source" -> source(e)
      [] r.op = "pretty" -> pretty(e)

C26_Deterministic ==
    [][ /\ (res.op = res'.op /\ err' = err
                /\ res.op \in {"advice", "message", "pretty"}) =>
                    res'.val = res.val
        /\ (res'.op = "advice") => res'.val = advice(err') ]_vars

\* advice() has run under the second keys and returned two items of which one
\* was declared twice.
C26_Witness ==
    /\ res.op = "advice"
    /\ "keys" \in DOMAIN res
    /\ res.keys = "second"
    /\ Len(res.val) = 2
    /\ Len(err[1].advice \o advice_walk(Inner(err))) > 2

\* ---------------------------------------------------------------------------
\* C27
\* ---------------------------------------------------------------------------

\* The head is the only domain node of the chain and declares no item twice.
C27_SingleNode ==
    /\ IsDomain(err)
    /\ \A i \in 2..Len(err) : err[i].t # "node"
    /\ NoDuplicates(err[1].advice)

\* The declared list of the head read from its last item to its first.
C27_Reversed == [i \in 1..Len(err[1].advice) |->
                    err[1].advice[Len(err[1].advice) + 1 - i]]

\* The items, each behind the separator, in one string.
C27_Listed(items, sep) ==
    LET F[i \in 0..Len(items)] ==
            IF i = 0 THEN "" ELSE F[i - 1] \o sep \o items[i]
    IN  F[Len(items)]

C27_EndsWith(s, suffix) ==
    Len(s) >= Len(suffix) /\ SubSeq(s, Len(s) - Len(suffix) + 1, Len(s)) = suffix

\* C27: for a single domain node over an opaque error whose own advice list
\* has no duplicates, advice() is that list in reverse of its declared order,
\* message() ends with the items in that reversed order and the advice box of
\* pretty() holds one bullet line per item in that reversed order.
C27_SingleNodeReversed ==
    C27_SingleNode =>
        /\ (res.op = "advice") => res.val = C27_Reversed
        /\ (res.op = "message" /\ err[1].advice # <<>>) =>
                C27_EndsWith(res.val, "\n\nTo try and fix this, you can:"
                    \o C27_Listed(C27_Reversed, "\n - "))
        /\ (res.op = "pretty" /\ err[1].advice # <<>>) =>
                /\ C15_BoxTops(res.val) # {}
                /\ Len(C15_BoxLines(res.val)) = Len(err[1].advice)
                /\ \A i \in 1..Len(err[1].advice) :
                        trim_end(SubSeq(C15_BoxLines(res.val)[i], 2,
                                        Len(C15_BoxLines(res.val)[i]) - 1))
                            = " " \o BULLET \o " " \o C27_Reversed[i]

\* pretty() of a single node that declares two different items.
C27_Witness ==
    /\ C27_SingleNode
    /\ Len(err[1].advice) = 2
    /\ res.op = "pretty"

\* message() of a single node that declares two different items.
C27_WitnessMessage ==
    /\ C27_SingleNode
    /\ Len(err[1].advice) = 2
    /\ res.op = "message"

\* ---------------------------------------------------------------------------
\* C28
\* ---------------------------------------------------------------------------

\* The step builds a domain node directly around the domain node that was the
\* chain before it.
C28_TransparentWrap ==
    /\ IsDomain(err)
    /\ IsDomain(err')
    /\ Inner(err') = err

\* The position of the outermost layer of a chain that is not a domain node:
\* the error whose text is the description of every node above it.
C28_Described(e) == CHOOSE p \in 1..Len(e) :
    /\ e[p].t # "node"
    /\ \A q \in 1..(p - 1) : e[q].t = "node"

\* C28: a node built directly around a domain node B has the description and
\* the cause list of B: it lists no cause for B itself (its causes come from
\* the layers below the error that gives B its description), and it has the
\* kind it was built with and no other, whatever the kind of B.
C28_TransparentWrapAddsNoCause ==
    [][ C28_TransparentWrap =>
            /\ description(err') = description(err)
            /\ caused_by(err') = caused_by(err)
            /\ Len(caused_by(err')) <= Len(err') - C28_Described(err')
            /\ \E kind \in Kind, adv \in AdviceSlices :
                    /\ err' = ErrorNew(err, kind, adv)
                    /\ is(err', kind)
                    /\ \A other \in Kind \ {kind} : ~is(err', other) ]_vars

\* A User node built directly around a System node that has a cause.
C28_Witness ==
    /\ Len(err) >= 4
    /\ err[1].t = "node" /\ err[1].kind = "User"
    /\ err[2].t = "node" /\ err[2].kind = "System"
    /\ caused_by(err) # <<>>

\* ---------------------------------------------------------------------------
\* C29
\* ---------------------------------------------------------------------------

\* What the replacement of the deprecated method returns for the same Result,
\* message and advice.
C29_Replacement ==
    CASE res.op = "map_err_as_user" -> or_user_err(res.self, res.adv)
      [] res.op = "map_err_as_system" -> or_system_err(res.self, res.adv)
      [] res.op = "wrap_err_as_user" ->
            wrap_user_err(res.self, res.msg, res.adv)
      [] res.op = "wrap_err_as_system" ->
            wrap_system_err(res.self, res.msg, res.adv)

C29_DeprecatedOps ==
    {"map_err_as_user", "map_err_as_system",
     "wrap_err_as_user", "wrap_err_as_system"}

\* Two errors a caller cannot tell apart by kind, description(), caused_by(),
\* advice() or message().
C29_SameError(a, b) ==
    /\ \A kind \in Kind : is(a, kind) <=> is(b, kind)
    /\ description(a) = description(b)
    /\ caused_by(a) = caused_by(b)
    /\ advice(a) = advice(b)
    /\ message(a) = message(b)

\* C29: each deprecated method returns what its replacement returns for the
\* same Result, message and advice: the same success, or an error of the same
\* kind, description(), caused_by(), advice() and message(); the error of
\* wrap_err_as_user / wrap_err_as_system has one node more.
C29_DeprecatedEquivalent ==
    (res.op \in C29_DeprecatedOps) =>
        /\ res.val.ok = C29_Replacement.ok
        /\ res.val.ok => res.val = C29_Replacement
        /\ ~res.val.ok =>
            /\ C29_SameError(res.val.error, C29_Replacement.error)
            /\ Len(res.val.error) = Len(C29_Replacement.error)
                    + (IF res.op \in {"wrap_err_as_user", "wrap_err_as_system"}
                       THEN 1 ELSE 0)

\* wrap_err_as_system of a failure with two advice items.
C29_Witness ==
    /\ res.op = "wrap_err_as_system"
    /\ ~res.self.ok
    /\ Len(res.adv) = 2
    /\ Len(res.val.error) = Len(res.self.error) + 3

\* map_err_as_user of a failure whose error is a domain node with advice.
C29_WitnessMap ==
    /\ res.op = "map_err_as_user"
    /\ ~res.self.ok
    /\ IsDomain(res.self.error)
    /\ res.self.error[1].advice # <<>>
    /\ res.adv # <<>>

\* wrap_err_as_user of a failure whose error is a domain node declaring the
\* advice that the call gives again.
C29_WitnessSharedAdvice ==
    /\ res.op = "wrap_err_as_user"
    /\ ~res.self.ok
    /\ IsDomain(res.self.error)
    /\ res.adv # <<>>
    /\ res.self.error[1].advice = res.adv

\* ---------------------------------------------------------------------------
\* C30
\* ---------------------------------------------------------------------------

\* The position of the error a node wraps after the nodes directly inside it:
\* the outermost layer that is not a domain node.
C30_Wrapped == CHOOSE p \in 1..Len(err) :
    /\ err[p].t # "node"
    /\ \A q \in 1..(p - 1) : err[q].t = "node"

\* The error c of a node built as wrap_user(c, msg, advice) or
\* wrap_system(c, msg, advice): what lies under the message wrapper.
C30_Cause == SubSeq(err, 3, Len(err))

\* What an entry of the cause list says of an error.
C30_Describes(c) ==
    IF c[1].t = "leaf" THEN c[1].text
    ELSE IF c[1].t = "wrap" THEN c[1].message
    ELSE description(c)

\* C30: source() of a domain node is the source of the error it wraps and
\* never that error itself: None for a node around a plain error, c for
\* wrap_user(c, msg, advice) and wrap_system(c, msg, advice).  The message
\* wrapper of such a node has no entry in caused_by() and no cause block in
\* pretty(): the first entry and the first block describe c.
C30_SourceSkipsWrapped ==
    IsDomain(err) =>
        /\ (res.op = "source") =>
            /\ res.val # Inner(err)
            /\ res.val = (IF err[C30_Wrapped].t = "wrap"
                          THEN SubSeq(err, C30_Wrapped + 1, Len(err))
                          ELSE <<>>)
            /\ (err[2].t = "leaf") => res.val = <<>>
            /\ (err[2].t = "wrap") => res.val = C30_Cause
        /\ (res.op = "caused_by" /\ err[2].t = "wrap") =>
            /\ res.val # <<>>
            /\ res.val[1] = C30_Describes(C30_Cause)
            /\ Len(res.val) <= Len(err) - 2
            /\ LET lines == pretty(err)
                   starts == C20_CauseStarts(lines)
               IN  /\ Len(starts) = Len(res.val)
                   /\ C20_Squeezed(C20_BlockText(lines, starts[1]))
                        = C20_Squeezed(C30_Describes(C30_Cause))
                   /\ StartsWith(SubSeq(lines[starts[1]], 3,
                                        Len(lines[starts[1]])),
                                 C20_Label(C30_Cause))

\* caused_by() of a node built around a message wrapper whose inner error is
\* a domain node.
C30_Witness ==
    /\ res.op = "caused_by"
    /\ Len(err) = 4
    /\ err[1].t = "node" /\ err[2].t = "wrap" /\ err[3].t = "node"

\* source() of a node built around a message wrapper.
C30_WitnessSource ==
    /\ res.op = "source"
    /\ Len(err) >= 3
    /\ err[1].t = "node" /\ err[2].t = "wrap"

\* source() of a node built around a plain error.
C30_WitnessLeaf ==
    /\ res.op = "source"
    /\ Len(err) = 2
    /\ err[1].t = "node" /\ err[2].t = "leaf"

====
